---- MODULE Spec2Model ----
(***************************************************************************)
(* The tool adapters of weekly_prep (src/src/weekly/tools): every adapter  *)
(* call is a request-scoped handler.  A call is started by one of the      *)
(* ...Call actions, runs through the steps of its _run method (one action  *)
(* per backend call or per block of local computation) and ends in "done"  *)
(* with the value handed to the caller in `result`.  What the backends and *)
(* the environment answer is chosen nondeterministically at each step.     *)
(***************************************************************************)
EXTENDS Integers, Sequences, FiniteSets, TLC

VARIABLES
    op,      \* the adapter whose _run is executing: "idle", "crm", "doc", "mail", "cal"
    pc,      \* position inside that _run
    args,    \* the arguments of the call
    env,     \* what os.getenv and the interpreter give this call
    loc,     \* the local variables of _run
    calls,   \* the backend calls issued so far, in order, with their outcome
    result   \* what the caller receives: [status |-> "none" | "returned" | "raised", ...]

vars == <<op, pc, args, env, loc, calls, result>>

\* ------------------------------------------------------------------ bounds

\* The longest association list a contact carries (the code reads the first 3).
MaxAssoc == 4

\* the largest payload tree handed to _extract_plain_text, in nodes
MaxNodes == 4

\* the longest list of message ids the mailbox search returns
MaxMsgs == 2

\* the longest list of events the calendar backend returns
MaxEvents == 2

\* ------------------------------------------------------------ Python values

\* Optional[T]: None, or a value.
None == [some |-> FALSE, v |-> {}]

Some(x) == [some |-> TRUE, v |-> x]

\* Truthiness of an Optional[dict]; dicts are sets of <<key, value>> pairs.
Truthy(o) == o.some /\ o.v # {}

\* `o or {}`
OrEmptyDict(o) == IF Truthy(o) THEN o.v ELSE {}

Min(a, b) == IF a <= b THEN a ELSE b

Max(a, b) == IF a >= b THEN a ELSE b

\* s[:n] for n >= 0
Take(s, n) == SubSeq(s, 1, Min(n, Len(s)))

NoResult == [status |-> "none"]

Returned(v) == [status |-> "returned", value |-> v]

Raised(e) == [status |-> "raised", exc |-> e]

Idle == [none |-> TRUE]

\* ------------------------------------------------------------------- text
\* A string is a sequence of one-character strings.

UpperCase ==
    <<"A", "B", "C", "D", "E", "F", "G", "H", "I", "J", "K", "L", "M", "N", "O", "P", "Q", "R", "S", "T", "U", "V", "W", "X", "Y", "Z">>

LowerCase ==
    <<"a", "b", "c", "d", "e", "f", "g", "h", "i", "j", "k", "l", "m", "n", "o", "p", "q", "r", "s", "t", "u", "v", "w", "x", "y", "z">>

Digits == {"0", "1", "2", "3", "4", "5", "6", "7", "8", "9"}

\* the position of c in a table of characters, 0 when it is not there
IndexOf(c, table) ==
    IF \E i \in DOMAIN table : table[i] = c
    THEN CHOOSE i \in DOMAIN table : table[i] = c
    ELSE 0

\* str.lower / re.I on one character
ToLower(c) == LET i == IndexOf(c, UpperCase) IN IF i = 0 THEN c ELSE LowerCase[i]

\* \w
IsWordChar(c) == IndexOf(c, UpperCase) # 0 \/ IndexOf(c, LowerCase) # 0 \/ c \in Digits \/ c = "_"

\* \s, and what str.strip() removes
IsSpace(c) == c \in {" ", "\t", "\n", "\r"}

\* s[i:] starts with w
StartsWithAt(s, i, w) ==
    /\ i + Len(w) - 1 <= Len(s)
    /\ \A k \in 1..Len(w) : s[i + k - 1] = w[k]

\* the same, ignoring case (w is in lower case)
StartsWithAtI(s, i, w) ==
    /\ i + Len(w) - 1 <= Len(s)
    /\ \A k \in 1..Len(w) : ToLower(s[i + k - 1]) = w[k]

\* s[i:], 1-based
From(s, i) == SubSeq(s, i, Len(s))

\* the least j >= i with P(j), Len(s) + 1 when there is none
FirstAtOrAfter(s, i, P(_)) ==
    LET hits == {j \in i..Len(s) : P(j)}
    IN IF hits = {} THEN Len(s) + 1 ELSE CHOOSE j \in hits : \A k \in hits : j <= k

\* the pieces of a list of strings, joined: "".join(pieces[lo..hi])
RECURSIVE Concat(_, _, _)
Concat(pieces, lo, hi) ==
    IF lo > hi THEN <<>>
    ELSE IF lo = hi THEN pieces[lo]
    ELSE LET mid == (lo + hi) \div 2
         IN Concat(pieces, lo, mid) \o Concat(pieces, mid + 1, hi)

\* re.sub scans from the left and takes a match where the previous one ended:
\* with lens[i] the length of the pattern's match at i (0: none), a match starts
\* at i when lens[i] > 0 and no match that started earlier runs over i
RECURSIVE IsMatchStart(_, _)
IsMatchStart(lens, i) ==
    /\ lens[i] > 0
    /\ \A j \in 1..(i - 1) : ~(lens[j] > 0 /\ j + lens[j] > i /\ IsMatchStart(lens, j))

\* re.sub(pattern, repl, s) for a pattern given by its match length at a
\* position and the replacement of the match at a position
SubAll(s, MatchLen(_, _), Repl(_, _)) ==
    LET lens == [i \in DOMAIN s |-> MatchLen(s, i)]
        starts == {i \in DOMAIN s : IsMatchStart(lens, i)}
        covered(i) == \E j \in starts : j < i /\ i < j + lens[j]
        pieces == [i \in DOMAIN s |->
                      IF i \in starts THEN Repl(s, i)
                      ELSE IF covered(i) THEN <<>>
                      ELSE <<s[i]>>]
    IN Concat(pieces, 1, Len(s))

\* str.strip()
Strip(s) ==
    IF \A i \in DOMAIN s : IsSpace(s[i]) THEN <<>>
    ELSE LET a == CHOOSE i \in DOMAIN s : ~IsSpace(s[i]) /\ \A k \in 1..(i - 1) : IsSpace(s[k])
             b == CHOOSE i \in DOMAIN s : ~IsSpace(s[i]) /\ \A k \in (i + 1)..Len(s) : IsSpace(s[k])
         IN SubSeq(s, a, b)

\* "\n".join(parts)
RECURSIVE JoinLines(_)
JoinLines(parts) ==
    IF parts = <<>> THEN <<>>
    ELSE IF Len(parts) = 1 THEN parts[1]
    ELSE parts[1] \o <<"\n">> \o JoinLines(Tail(parts))

\* ----------------------------------------------------------------- base64

B64Alphabet ==
    <<"A", "B", "C", "D", "E", "F", "G", "H", "I", "J", "K", "L", "M", "N", "O", "P", "Q", "R", "S", "T", "U", "V", "W", "X", "Y", "Z", "a", "b", "c", "d", "e", "f", "g", "h", "i", "j", "k", "l", "m", "n", "o", "p", "q", "r", "s", "t", "u", "v", "w", "x", "y", "z", "0", "1", "2", "3", "4", "5", "6", "7", "8", "9", "+", "/">>

\* the printable ASCII characters, from code 32 (the grave accent, which a
\* string of this notation cannot hold, by its code point)
Ascii ==
    <<" ", "!", "\"", "#", "$", "%", "&", "'", "(", ")", "*", "+", ",", "-", ".", "/", "0", "1", "2", "3", "4", "5", "6", "7", "8", "9", ":", ";", "<", "=", ">", "?", "@", "A", "B", "C", "D", "E", "F", "G", "H", "I", "J", "K", "L", "M", "N", "O", "P", "Q", "R", "S", "T", "U", "V", "W", "X", "Y", "Z", "[", "\\", "]", "^", "_", "U+0060", "a", "b", "c", "d", "e", "f", "g", "h", "i", "j", "k", "l", "m", "n", "o", "p", "q", "r", "s", "t", "u", "v", "w", "x", "y", "z", "{", "|", "}", "~">>

\* bytes.decode("utf-8", errors="replace") of one byte; a byte outside ASCII
\* shows as the replacement character (the payloads here are ASCII)
Chr(b) ==
    IF b = 10 THEN "\n"
    ELSE IF b = 9 THEN "\t"
    ELSE IF b = 13 THEN "\r"
    ELSE IF b \in 32..126 THEN Ascii[b - 31]
    ELSE "U+FFFD"

\* binascii.a2b_base64 (not strict), as base64.b64decode(validate=False) runs
\* it.  Characters outside the alphabet are skipped.  A "=" met when 2 or 3
\* characters of a quantum are in, and completing it together with the "=" met
\* since the last alphabet character, ends the input.  Input that ends inside a
\* quantum otherwise is an error.
A2bBase64(s) ==
    LET dataAt == {i \in DOMAIN s : IndexOf(s[i], B64Alphabet) # 0}
        padAt == {i \in DOMAIN s : s[i] = "="}
        before(i) == Cardinality({j \in dataAt : j < i})
        padsAt(i) == Cardinality({j \in padAt : j <= i /\ before(j) = before(i)})
        ends == {i \in padAt : before(i) % 4 >= 2 /\ (before(i) % 4) + padsAt(i) >= 4}
        stop == IF ends = {} THEN Len(s) + 1 ELSE CHOOSE i \in ends : \A k \in ends : i <= k
        data == SelectSeq(SubSeq(s, 1, stop - 1), LAMBDA c : IndexOf(c, B64Alphabet) # 0)
        values == [k \in DOMAIN data |-> IndexOf(data[k], B64Alphabet) - 1]
        n == Len(values)
        byte(k) == LET base == 4 * ((k - 1) \div 3)
                       r == (k - 1) % 3
                   IN IF r = 0 THEN values[base + 1] * 4 + (values[base + 2] \div 16)
                      ELSE IF r = 1
                      THEN (values[base + 2] % 16) * 16 + (values[base + 3] \div 4)
                      ELSE (values[base + 3] % 4) * 64 + values[base + 4]
    IN [ok |-> stop <= Len(s) \/ n % 4 = 0,
        bytes |-> [k \in 1..((n * 6) \div 8) |-> byte(k)]]

\* html.unescape: of the named references lt, gt and amp are modelled (with or
\* without the semicolon); the payloads here hold no others
EntityAt(s, i) ==
    IF StartsWithAt(s, i, <<"&", "l", "t">>) THEN [len |-> 3, char |-> "<"]
    ELSE IF StartsWithAt(s, i, <<"&", "g", "t">>) THEN [len |-> 3, char |-> ">"]
    ELSE IF StartsWithAt(s, i, <<"&", "a", "m", "p">>) THEN [len |-> 4, char |-> "&"]
    ELSE [len |-> 0, char |-> ""]

EntityLen(s, i) ==
    LET e == EntityAt(s, i)
    IN IF e.len = 0 THEN 0
       ELSE e.len + (IF StartsWithAt(s, i + e.len, <<";">>) THEN 1 ELSE 0)

Unescape(s) == SubAll(s, EntityLen, LAMBDA t, i : <<EntityAt(t, i).char>>)

\* gmail_tool.py lines 130-138: _safe_b64_to_text
SafeB64ToText(data) ==
    LET translated == [k \in DOMAIN data |->
                          IF data[k] = "-" THEN "+" ELSE IF data[k] = "_" THEN "/" ELSE data[k]]
        padding == [k \in 1..((4 - (Len(translated) % 4)) % 4) |-> "="]
        raw == A2bBase64(translated \o padding)
    IN IF raw.ok
       THEN Unescape([k \in DOMAIN raw.bytes |-> Chr(raw.bytes[k])])
       ELSE <<>>

\* ------------------------------------------------------------- HTML to text

\* the run of characters satisfying P that starts at i: its length
RunLen(s, i, P(_)) == FirstAtOrAfter(s, i, LAMBDA j : ~P(s[j])) - i

\* (?is)<(script|style).*?>.*?</\1> at i
ScriptBlockLen(s, i) ==
    LET name == IF StartsWithAtI(s, i, <<"<", "s", "c", "r", "i", "p", "t">>)
                THEN <<"s", "c", "r", "i", "p", "t">>
                ELSE IF StartsWithAtI(s, i, <<"<", "s", "t", "y", "l", "e">>)
                THEN <<"s", "t", "y", "l", "e">>
                ELSE <<>>
        close == <<"<", "/">> \o name \o <<">">>
        gt == FirstAtOrAfter(s, i + 1 + Len(name), LAMBDA j : s[j] = ">")
        end == FirstAtOrAfter(s, gt + 1, LAMBDA j : StartsWithAtI(s, j, close))
    IN IF name = <<>> \/ gt > Len(s) \/ end > Len(s) THEN 0
       ELSE end + Len(close) - i

\* (?s)<br\s*/?> at i
BrLen(s, i) ==
    IF ~StartsWithAt(s, i, <<"<", "b", "r">>) THEN 0
    ELSE LET ws == RunLen(s, i + 3, IsSpace)
             slash == IF StartsWithAt(s, i + 3 + ws, <<"/">>) THEN 1 ELSE 0
         IN IF StartsWithAt(s, i + 3 + ws + slash, <<">">>) THEN 3 + ws + slash + 1 ELSE 0

\* (?s)</p\s*> at i
ClosePLen(s, i) ==
    IF ~StartsWithAt(s, i, <<"<", "/", "p">>) THEN 0
    ELSE LET ws == RunLen(s, i + 3, IsSpace)
         IN IF StartsWithAt(s, i + 3 + ws, <<">">>) THEN 3 + ws + 1 ELSE 0

\* (?s)<[^>]+> at i
TagLen(s, i) ==
    LET gt == FirstAtOrAfter(s, i + 1, LAMBDA j : s[j] = ">")
    IN IF s[i] = "<" /\ gt <= Len(s) /\ gt > i + 1 THEN gt - i + 1 ELSE 0

\* [ \t]+\n at i
TrailingBlankLen(s, i) ==
    LET n == RunLen(s, i, LAMBDA c : c \in {" ", "\t"})
    IN IF n > 0 /\ StartsWithAt(s, i + n, <<"\n">>) THEN n + 1 ELSE 0

\* \n{3,} at i
BlankLinesLen(s, i) ==
    LET n == RunLen(s, i, LAMBDA c : c = "\n")
    IN IF n >= 3 THEN n ELSE 0

\* gmail_tool.py lines 140-148: _strip_html
StripHtml(html) ==
    LET t1 == SubAll(html, ScriptBlockLen, LAMBDA t, i : <<>>)
        t2 == SubAll(t1, BrLen, LAMBDA t, i : <<"\n">>)
        t3 == SubAll(t2, ClosePLen, LAMBDA t, i : <<"\n">>)
        t4 == SubAll(t3, TagLen, LAMBDA t, i : <<>>)
        t5 == SubAll(t4, TrailingBlankLen, LAMBDA t, i : <<"\n">>)
        t6 == SubAll(t5, BlankLinesLen, LAMBDA t, i : <<"\n", "\n">>)
    IN Strip(t6)

\* ================================================================== CRM
\* hubspot_tool.py: HubSpotSearchTool._run(meeting_title, email)

Titles == {"Q1 sync"}

Emails == {"ana@acme.io"}

\* properties as the SDK hands them over: None, an empty dict, a filled dict
MeetingProps == {<<"hs_meeting_title", "Q1 sync">>}

ContactProps == {<<"email", "ana@acme.io">>, <<"firstname", "Ana">>}

ItemProps(type, id) == {<<"type", type>>, <<"hs_object_id", id>>}

\* what do_search can do: throw, return no results, return a first result
MeetingOutcomes ==
    {[kind |-> "throws"], [kind |-> "empty"]}
        \cup {[kind |-> "hit", properties |-> p] : p \in {None, Some({}), Some(MeetingProps)}}

\* one association collection of a contact: absent from the dict, present with
\* a list of ids, or present with a results attribute that cannot be sliced
AssocIds(n) == [i \in 1..n |-> i]

AssocCollections ==
    {[present |-> FALSE, readable |-> TRUE, results |-> <<>>]}
        \cup {[present |-> TRUE, readable |-> FALSE, results |-> <<>>]}
        \cup {[present |-> TRUE, readable |-> TRUE, results |-> AssocIds(n)] : n \in 0..MaxAssoc}

NoAssociations ==
    [has |-> FALSE,
     companies |-> [present |-> FALSE, readable |-> TRUE, results |-> <<>>],
     deals |-> [present |-> FALSE, readable |-> TRUE, results |-> <<>>]]

Associations ==
    {NoAssociations}
        \cup {[has |-> TRUE, companies |-> c, deals |-> d] :
                c \in AssocCollections, d \in AssocCollections}

\* what basic_api.get_by_id("contacts", email, ...) can do
ContactOutcomes ==
    {[kind |-> "throws"]}
        \cup {[kind |-> "ok", properties |-> p, associations |-> a] :
                p \in {None, Some({}), Some(ContactProps)}, a \in Associations}

\* what basic_api.get_by_id("companies" | "deals", id) can do
ItemOutcomes(type, id) ==
    {[kind |-> "throws"],
     [kind |-> "ok", properties |-> Some(ItemProps(type, id))]}

\* lines 35-38
CrmLocals ==
    [meeting_obj |-> None, contact_obj |-> None, companies |-> <<>>, deals |-> <<>>,
     contact |-> NoAssociations, todo |-> <<>>]

\* lines 31-33: the except of the client construction
CrmAuthError == Returned([found |-> FALSE, reason |-> <<"Auth error: ", "ctor">>])

HubSpotCall ==
    /\ pc = "idle"
    /\ \E t \in Titles, e \in Emails, tok \in {"absent", "set"} :
        /\ args' = [meeting_title |-> t, email |-> e]
        /\ env' = [HUBSPOT_ACCESS_TKN |-> tok]
    /\ op' = "crm"
    /\ pc' = "crm_client"
    /\ loc' = CrmLocals
    /\ calls' = <<>>
    /\ result' = NoResult

\* lines 30-38
HubSpotClient ==
    /\ pc = "crm_client"
    /\ \E ok \in BOOLEAN :
        IF ok
        THEN /\ pc' = "crm_meeting"
             /\ result' = result
        ELSE /\ pc' = "done"
             /\ result' = CrmAuthError
    /\ UNCHANGED <<op, args, env, loc, calls>>

\* lines 41-47: the value of meeting_obj after the try/except
MeetingObjAfter(out) ==
    IF out.kind = "hit" THEN Some(OrEmptyDict(out.properties)) ELSE None

\* a search failure ends the whole lookup
MeetingSearchAborts(out) == IF out.kind = "throws" THEN "crm_aggregate" ELSE "crm_contact"

\* lines 46-49: where control goes after the meeting search, whatever it did
MeetingSearchNext(out) == "crm_contact"

\* lines 40-47
HubSpotMeetingSearch ==
    /\ pc = "crm_meeting"
    /\ \E out \in MeetingOutcomes :
        /\ calls' = Append(calls, [api |-> "meetings.do_search", arg |-> args.meeting_title,
                                   ok |-> out.kind # "throws", ret |-> out])
        /\ loc' = [loc EXCEPT !.meeting_obj = MeetingObjAfter(out)]
        /\ pc' = MeetingSearchNext(out)
    /\ UNCHANGED <<op, args, env, result>>

\* lines 78-81: both except clauses of the contact block
ContactBlockFailed(l) == [l EXCEPT !.contact_obj = None]

\* lines 51-58
HubSpotContactFetch ==
    /\ pc = "crm_contact"
    /\ \E out \in ContactOutcomes :
        /\ calls' = Append(calls, [api |-> "contacts.get_by_id", arg |-> args.email,
                                   ok |-> out.kind # "throws", ret |-> out])
        /\ IF out.kind = "throws"
           THEN /\ loc' = ContactBlockFailed(loc)
                /\ pc' = "crm_aggregate"
           ELSE /\ loc' = [loc EXCEPT !.contact_obj = Some(OrEmptyDict(out.properties)),
                                      !.contact = out.associations]
                /\ pc' = "crm_companies"
    /\ UNCHANGED <<op, args, env, result>>

\* the fetch limit is missing
AllOfThem(coll) == coll.results

\* lines 62 and 71: results[:3]
FirstThree(coll) == Take(coll.results, 3)

\* lines 61-62, 70-71: the loop header over one association collection; `after`
\* is where control goes when there is nothing (left) to fetch
ReadAssociations(coll, fetching, after) ==
    IF ~(loc.contact.has /\ coll.present)
    THEN /\ pc' = after
         /\ loc' = [loc EXCEPT !.todo = <<>>]
    ELSE IF ~coll.readable
    THEN /\ pc' = "crm_aggregate"
         /\ loc' = [ContactBlockFailed(loc) EXCEPT !.todo = <<>>]
    ELSE /\ pc' = IF FirstThree(coll) = <<>> THEN after ELSE fetching
         /\ loc' = [loc EXCEPT !.todo = FirstThree(coll)]

HubSpotReadCompanies ==
    /\ pc = "crm_companies"
    /\ ReadAssociations(loc.contact.companies, "crm_company", "crm_deals")
    /\ UNCHANGED <<op, args, env, calls, result>>

\* lines 63-67: one iteration of the company loop
HubSpotCompanyFetch ==
    /\ pc = "crm_company"
    /\ loc.todo # <<>>
    /\ \E out \in ItemOutcomes("companies", Head(loc.todo)) :
        /\ calls' = Append(calls, [api |-> "companies.get_by_id", arg |-> Head(loc.todo),
                                   ok |-> out.kind # "throws", ret |-> out])
        /\ loc' = [loc EXCEPT
                     !.companies = IF out.kind = "ok"
                                   THEN Append(@, OrEmptyDict(out.properties)) ELSE @,
                     !.todo = Tail(@)]
        /\ pc' = IF Tail(loc.todo) = <<>> THEN "crm_deals" ELSE "crm_company"
    /\ UNCHANGED <<op, args, env, result>>

HubSpotReadDeals ==
    /\ pc = "crm_deals"
    /\ ReadAssociations(loc.contact.deals, "crm_deal", "crm_aggregate")
    /\ UNCHANGED <<op, args, env, calls, result>>

\* lines 72-76: one iteration of the deal loop
HubSpotDealFetch ==
    /\ pc = "crm_deal"
    /\ loc.todo # <<>>
    /\ \E out \in ItemOutcomes("deals", Head(loc.todo)) :
        /\ calls' = Append(calls, [api |-> "deals.get_by_id", arg |-> Head(loc.todo),
                                   ok |-> out.kind # "throws", ret |-> out])
        /\ loc' = [loc EXCEPT
                     !.deals = IF out.kind = "ok"
                               THEN Append(@, OrEmptyDict(out.properties)) ELSE @,
                     !.todo = Tail(@)]
        /\ pc' = IF Tail(loc.todo) = <<>> THEN "crm_aggregate" ELSE "crm_deal"
    /\ UNCHANGED <<op, args, env, result>>

\* only the contact decides
HasAnythingContactOnly(l) == Truthy(l.contact_obj)

\* line 83: any([meeting_obj, contact_obj, companies, deals])
HasAnything(l) ==
    \/ Truthy(l.meeting_obj)
    \/ Truthy(l.contact_obj)
    \/ l.companies # <<>>
    \/ l.deals # <<>>

\* lines 84-93
CrmBundle(l) ==
    IF ~HasAnything(l)
    THEN [found |-> FALSE, reason |-> "No HubSpot data found"]
    ELSE [found |-> TRUE,
          meeting |-> OrEmptyDict(l.meeting_obj),
          contact |-> OrEmptyDict(l.contact_obj),
          companies |-> l.companies,
          deals |-> l.deals]

HubSpotAggregate ==
    /\ pc = "crm_aggregate"
    /\ result' = Returned(CrmBundle(loc))
    /\ pc' = "done"
    /\ UNCHANGED <<op, args, env, loc, calls>>

\* ============================================================ credentials

\* What a token source (one environment variable) can hold: nothing, text that
\* is not JSON, JSON lacking a required field, or a usable bundle.  `expired`
\* and `refresh_token` are what creds.expired and creds.refresh_token then give.
TokenSources ==
    {[shape |-> s, expired |-> FALSE, refresh_token |-> FALSE] :
        s \in {"absent", "malformed", "incomplete"}}
        \cup {[shape |-> "valid", expired |-> e, refresh_token |-> r] :
                e \in BOOLEAN, r \in BOOLEAN}

\* refreshes whenever the token is expired
RefreshWhenExpired(creds) == creds.expired

\* calendar_tool.py line 148, doc_tool.py line 39:
\* creds.expired and creds.refresh_token
NeedsRefresh(creds) == creds.expired /\ creds.refresh_token

RefreshCall(ok) == [api |-> "token.refresh", arg |-> "Request()", ok |-> ok, ret |-> ok]

\* ============================================================= Document
\* doc_tool.py: GoogleDocTool._run(meeting_summary)

\* summaries, as sequences of characters
Summaries == {<<>>, <<"Q", "1", " ", "s", "y", "n", "c", " ", "n", "o", "t", "e", "s">>}

\* datetime.now().strftime("%A %Y-%m-%d")
Today == "Monday 2025-03-10"

DocIds == {"1AbC"}

\* what documents().create(...).execute() can do; a response may lack documentId
DocCreateOutcomes ==
    {[kind |-> "throws"], [kind |-> "ok", documentId |-> None]}
        \cup {[kind |-> "ok", documentId |-> Some(d)] : d \in DocIds}

\* lines 75-76
DocError(detail) == Returned(<<"Error creating document: ", detail>>)

\* line 72
DocLink(id) == Returned(<<"https://docs.google.com/document/d/", id, "/edit">>)

\* the newline is forgotten
InsertTextBare(summary) == [index |-> 1, text |-> summary]

\* lines 48-55: the insertText request
InsertTextRequest(summary) == [index |-> 1, text |-> Append(summary, "\n")]

\* line 67
PermissionBody == [type |-> "anyone", role |-> "writer"]

GoogleDocCall ==
    /\ pc = "idle"
    /\ \E s \in Summaries, tok \in TokenSources :
        /\ args' = [meeting_summary |-> s]
        /\ env' = [GOOGLE_TKN_DOC |-> tok]
    /\ op' = "doc"
    /\ pc' = "doc_creds"
    /\ loc' = [documentId |-> None]
    /\ calls' = <<>>
    /\ result' = NoResult

\* lines 24-40: token JSON, credentials, refresh if needed
GoogleDocCredentials ==
    /\ pc = "doc_creds"
    /\ LET tok == env.GOOGLE_TKN_DOC IN
        IF tok.shape # "valid"
        THEN /\ result' = DocError(tok.shape)
             /\ pc' = "done"
             /\ calls' = calls
        ELSE IF NeedsRefresh(tok)
        THEN \E ok \in BOOLEAN :
                /\ calls' = Append(calls, RefreshCall(ok))
                /\ result' = IF ok THEN result ELSE DocError("refresh")
                /\ pc' = IF ok THEN "doc_create" ELSE "done"
        ELSE /\ result' = result
             /\ pc' = "doc_create"
             /\ calls' = calls
    /\ UNCHANGED <<op, args, env, loc>>

\* lines 43-46: build the Docs service and create the document
GoogleDocCreate ==
    /\ pc = "doc_create"
    /\ \E built \in BOOLEAN :
        IF ~built
        THEN /\ result' = DocError("build docs")
             /\ pc' = "done"
             /\ UNCHANGED <<loc, calls>>
        ELSE \E out \in DocCreateOutcomes :
            /\ calls' = Append(calls, [api |-> "documents.create", arg |-> [title |-> Today],
                                       ok |-> out.kind = "ok", ret |-> out])
            /\ IF out.kind = "ok"
               THEN /\ loc' = [loc EXCEPT !.documentId = out.documentId]
                    /\ result' = result
                    /\ pc' = "doc_insert"
               ELSE /\ result' = DocError("create")
                    /\ pc' = "done"
                    /\ loc' = loc
    /\ UNCHANGED <<op, args, env>>

\* lines 48-59: doc["documentId"] is read before the batchUpdate is issued
GoogleDocInsertText ==
    /\ pc = "doc_insert"
    /\ IF ~loc.documentId.some
       THEN /\ result' = DocError("KeyError: documentId")
            /\ pc' = "done"
            /\ calls' = calls
       ELSE \E ok \in BOOLEAN :
            /\ calls' = Append(calls, [api |-> "documents.batchUpdate",
                                       arg |-> [documentId |-> loc.documentId.v,
                                                requests |-> <<InsertTextRequest(args.meeting_summary)>>],
                                       ok |-> ok, ret |-> ok])
            /\ result' = IF ok THEN result ELSE DocError("batchUpdate")
            /\ pc' = IF ok THEN "doc_share" ELSE "done"
    /\ UNCHANGED <<op, args, env, loc>>

\* lines 61-72: build the Drive service, set the permission, return the link
GoogleDocShare ==
    /\ pc = "doc_share"
    /\ \E built \in BOOLEAN :
        IF ~built
        THEN /\ result' = DocError("build drive")
             /\ calls' = calls
        ELSE \E ok \in BOOLEAN :
            /\ calls' = Append(calls, [api |-> "permissions.create",
                                       arg |-> [fileId |-> loc.documentId.v,
                                                body |-> PermissionBody],
                                       ok |-> ok, ret |-> ok])
            /\ result' = IF ok THEN DocLink(loc.documentId.v) ELSE DocError("permissions")
    /\ pc' = "done"
    /\ UNCHANGED <<op, args, env, loc>>

\* ================================================================= Mail
\* gmail_tool.py: GmailMeetingTool._run(query, max_results, include_body,
\* body_char_limit) and its utilities

\* line 69: snippet[:300]
SnippetLimit == 300

Queries == {"Q1 sync"}

MaxResultsInputs == {-3, 0, 1, 5, 10, 11, 15}

\* 800 is the default (line 21)
BodyLimits == {-1, 0, 3, 800}

\* body data as Gmail sends it (web-safe base64), with the text it encodes
DataPlain == <<"S", "G", "k", "g", "Q", "W", "5", "h">>            \* "Hi Ana"

DataPlainPadded == <<"I", "H", "N", "l", "Z", "S", "B", "5", "b", "3", "U", "g", "C", "g", "=", "=">>    \* " see you \n"

DataHtml == <<"P", "H", "A", "-", "S", "G", "k", "8", "L", "3", "A", "-", "P", "G", "J", "y", "P", "k", "E", "8", "Y", "j", "5", "u", "Y", "Q", "=", "=">>    \* "<p>Hi</p><br>A<b>na"

DataOther == <<"J", "V", "B", "E", "R", "g", "=", "=">>                    \* "%PDF"

Part(mime, data, parts) == [mimeType |-> mime, data |-> data, parts |-> parts]

\* full.get("payload", {}) of a message without payload
NoPayload == Part("", <<>>, <<>>)

\* the payloads of one node: parts carrying data, a text part without data, and
\* a multipart container without parts
Leaves ==
    {Part("text/plain", DataPlain, <<>>),
     Part("text/plain", DataPlainPadded, <<>>),
     Part("text/html", DataHtml, <<>>),
     Part("application/pdf", DataOther, <<>>),
     Part("text/plain", <<>>, <<>>),
     Part("multipart/mixed", <<>>, <<>>)}

\* the payload trees of exactly n nodes, and the part lists of exactly n nodes
RECURSIVE PayloadsOfSize(_), PartListsOfSize(_)
PayloadsOfSize(n) ==
    IF n = 1 THEN Leaves
    ELSE {Part("multipart/alternative", <<>>, f) : f \in PartListsOfSize(n - 1)}

PartListsOfSize(n) ==
    IF n = 0 THEN {<<>>}
    ELSE UNION {{<<t>> \o f : t \in PayloadsOfSize(k), f \in PartListsOfSize(n - k)} : k \in 1..n}

Payloads == UNION {PayloadsOfSize(n) : n \in 1..MaxNodes}

\* the first i of parts with the given mime type that carries data, 0 if none
FirstWithData(parts, mime) ==
    LET hits == {i \in DOMAIN parts : parts[i].mimeType = mime /\ parts[i].data # <<>>}
    IN IF hits = {} THEN 0 ELSE CHOOSE i \in hits : \A j \in hits : i <= j

\* gmail_tool.py lines 88-128: _extract_plain_text
RECURSIVE ExtractPlainText(_)
ExtractPlainText(payload) ==
    IF payload = NoPayload THEN <<>>
    ELSE IF payload.data # <<>>
    THEN IF payload.mimeType = "text/html"
         THEN StripHtml(SafeB64ToText(payload.data))
         ELSE SafeB64ToText(payload.data)
    ELSE IF payload.parts = <<>> THEN <<>>
    ELSE LET parts == payload.parts
             plain == FirstWithData(parts, "text/plain")
             html == FirstWithData(parts, "text/html")
             texts == [i \in DOMAIN parts |-> ExtractPlainText(parts[i])]
         IN IF plain # 0 THEN SafeB64ToText(parts[plain].data)
            ELSE IF html # 0 THEN StripHtml(SafeB64ToText(parts[html].data))
            ELSE Strip(JoinLines(SelectSeq(texts, LAMBDA t : t # <<>>)))

\* _extract_plain_text called on its own
ExtractCall ==
    /\ pc = "idle"
    /\ \E p \in Payloads : args' = [payload |-> p]
    /\ op' = "extract"
    /\ pc' = "extract_run"
    /\ env' = Idle
    /\ loc' = Idle
    /\ calls' = <<>>
    /\ result' = NoResult

ExtractRun ==
    /\ pc = "extract_run"
    /\ result' = Returned(ExtractPlainText(args.payload))
    /\ pc' = "done"
    /\ UNCHANGED <<op, args, env, loc, calls>>

\* s[:n] of Python, n of either sign
SliceTo(s, n) ==
    IF n >= 0 THEN Take(s, n) ELSE SubSeq(s, 1, Max(0, Len(s) + n))

\* the lower bound is forgotten
ClampUpperOnly(m) == Min(m, 10)

\* line 41: max(1, min(int(max_results), 10))
ClampMaxResults(m) == Max(1, Min(m, 10))

\* line 84
GmailError(detail) == Returned([error |-> <<"Error while accessing Gmail: ", detail>>])

\* the token sources the Mail adapter distinguishes (it never reads creds.expired)
GmailTokenSources == {t \in TokenSources : ~t.expired}

MessageIds(n) == [i \in 1..n |-> i]

Chars(n, c) == [i \in 1..n |-> c]

AllHeaders == {<<"Subject", "Q1 sync">>, <<"From", "ana@acme.io">>, <<"Date", "Mon, 10 Mar 2025">>}

\* what messages().get(format="metadata") can do: throw, or return a message
\* with or without headers and snippet
MetadataOutcomes ==
    {[kind |-> "throws"],
     [kind |-> "ok", headers |-> {}, snippet |-> None],
     [kind |-> "ok", headers |-> AllHeaders, snippet |-> Some(Chars(SnippetLimit + 1, "s"))]}

\* what messages().get(format="full") can do
FullOutcomes ==
    {[kind |-> "throws"]}
        \cup {[kind |-> "ok", payload |-> p] :
                p \in {NoPayload,
                       Part("text/html", DataHtml, <<>>),
                       Part("multipart/alternative", <<>>,
                            <<Part("text/plain", DataPlainPadded, <<>>),
                              Part("text/html", DataHtml, <<>>)>>)}}

\* headers.get(name, default)
HeaderOr(headers, name, default) ==
    IF \E h \in headers : h[1] = name
    THEN (CHOOSE h \in headers : h[1] = name)[2]
    ELSE default

\* lines 58-70: the record built from the metadata
MailRecord(mid, msg) ==
    [id |-> mid,
     subject |-> HeaderOr(msg.headers, "Subject", "No Subject"),
     from |-> HeaderOr(msg.headers, "From", "No Sender"),
     date |-> HeaderOr(msg.headers, "Date", "No Date"),
     snippet |-> IF msg.snippet.some /\ msg.snippet.v # <<>>
                 THEN SliceTo(msg.snippet.v, SnippetLimit) ELSE <<>>]

\* line 77: body_text[:body_char_limit] if body_text else ""
Truncated(body_text, limit) == IF body_text # <<>> THEN SliceTo(body_text, limit) ELSE <<>>

\* lines 75-77: record["body"]
BodyOf(payload, limit) == Truncated(ExtractPlainText(payload), limit)

\* adds the key "body" to a record
WithBody(record, body) ==
    [k \in DOMAIN record \cup {"body"} |-> IF k = "body" THEN body ELSE record[k]]

GmailCall ==
    /\ pc = "idle"
    /\ \E q \in Queries, m \in MaxResultsInputs, b \in BOOLEAN, l \in BodyLimits,
          tok \in GmailTokenSources :
        /\ args' = [query |-> q, max_results |-> m, include_body |-> b, body_char_limit |-> l]
        /\ env' = [GMAIL_TKN |-> tok]
    /\ op' = "mail"
    /\ pc' = "mail_creds"
    /\ loc' = [max_results |-> 0, ids |-> <<>>, items |-> <<>>]
    /\ calls' = <<>>
    /\ result' = NoResult

\* lines 23-38: token JSON, credentials, the Gmail service
GmailCredentials ==
    /\ pc = "mail_creds"
    /\ LET tok == env.GMAIL_TKN IN
        IF tok.shape = "absent"
        THEN /\ result' = Returned([error |-> "GMAIL_TKN not found in environment"])
             /\ pc' = "done"
        ELSE IF tok.shape # "valid"
        THEN /\ result' = GmailError(tok.shape)
             /\ pc' = "done"
        ELSE \E built \in BOOLEAN :
             /\ result' = IF built THEN result ELSE GmailError("build gmail")
             /\ pc' = IF built THEN "mail_search" ELSE "done"
    /\ UNCHANGED <<op, args, env, loc, calls>>

\* lines 40-49: clamp, search, the ids
GmailSearch ==
    /\ pc = "mail_search"
    /\ LET bound == ClampMaxResults(args.max_results) IN
        \E ok \in BOOLEAN, n \in 0..MaxMsgs :
            /\ n <= bound
            /\ ~ok => n = 0
            /\ calls' = Append(calls, [api |-> "messages.list",
                                       arg |-> [q |-> args.query, maxResults |-> bound],
                                       ok |-> ok, ret |-> MessageIds(n)])
            /\ loc' = [loc EXCEPT !.max_results = bound, !.ids = MessageIds(n)]
            /\ IF ~ok
               THEN /\ result' = GmailError("list")
                    /\ pc' = "done"
               ELSE IF n = 0
               THEN /\ result' = Returned([count |-> 0, items |-> <<>>])
                    /\ pc' = "done"
               ELSE /\ result' = result
                    /\ pc' = "mail_message"
    /\ UNCHANGED <<op, args, env>>

\* lines 52-81: one iteration of the loop over the ids, and the return after
\* the last one
GmailFetchMessage ==
    /\ pc = "mail_message"
    /\ loc.ids # <<>>
    /\ \E meta \in MetadataOutcomes, full \in FullOutcomes :
        LET mid == Head(loc.ids)
            metaCall == [api |-> "messages.get", arg |-> [id |-> mid, format |-> "metadata"],
                         ok |-> meta.kind = "ok", ret |-> meta]
            fullCall == [api |-> "messages.get", arg |-> [id |-> mid, format |-> "full"],
                         ok |-> full.kind = "ok", ret |-> full]
            wantBody == meta.kind = "ok" /\ args.include_body
            failed == meta.kind = "throws" \/ (wantBody /\ full.kind = "throws")
            record == IF wantBody
                      THEN WithBody(MailRecord(mid, meta), BodyOf(full.payload, args.body_char_limit))
                      ELSE MailRecord(mid, meta)
        IN /\ ~wantBody => full = [kind |-> "throws"]
           /\ calls' = IF wantBody THEN calls \o <<metaCall, fullCall>> ELSE Append(calls, metaCall)
           /\ IF failed
              THEN /\ result' = GmailError("get")
                   /\ pc' = "done"
                   /\ loc' = loc
              ELSE /\ loc' = [loc EXCEPT !.items = Append(@, record), !.ids = Tail(@)]
                   /\ IF Tail(loc.ids) = <<>>
                      THEN /\ result' = Returned([count |-> Len(loc'.items), items |-> loc'.items])
                           /\ pc' = "done"
                      ELSE /\ result' = result
                           /\ pc' = "mail_message"
    /\ UNCHANGED <<op, args, env>>

\* ============================================================= Calendar
\* calendar_tool.py: FetchUpcomingMeetingsTool._run(query, start_iso, end_iso,
\* require_zoom) and its internals

\* line 17: IST = ZoneInfo("Asia/Kolkata"), as minutes east of UTC (the offset
\* of that zone for every date since 1945-10-15)
IST == 330

\* timedelta(days=7), line 73
WindowDays == 7

DigitChars == <<"0", "1", "2", "3", "4", "5", "6", "7", "8", "9">>

DayNames == <<"Monday", "Tuesday", "Wednesday", "Thursday", "Friday", "Saturday", "Sunday">>

DigitVal(c) == IndexOf(c, DigitChars) - 1

AllDigits(s, i, n) == \A k \in i..(i + n - 1) : s[k] \in Digits

Num2(s, i) == 10 * DigitVal(s[i]) + DigitVal(s[i + 1])

Num4(s, i) == 100 * Num2(s, i) + Num2(s, i + 2)

Pad2(n) == <<DigitChars[(n \div 10) + 1], DigitChars[(n % 10) + 1]>>

Pad4(n) == Pad2(n \div 100) \o Pad2(n % 100)

\* the proleptic Gregorian calendar of datetime
IsLeap(y) == y % 4 = 0 /\ (y % 100 # 0 \/ y % 400 = 0)

DaysInMonth(y, m) ==
    IF m = 2 THEN (IF IsLeap(y) THEN 29 ELSE 28)
    ELSE IF m \in {4, 6, 9, 11} THEN 30 ELSE 31

RECURSIVE DaysBeforeMonth(_, _)
DaysBeforeMonth(y, m) ==
    IF m = 1 THEN 0 ELSE DaysBeforeMonth(y, m - 1) + DaysInMonth(y, m - 1)

DaysBeforeYear(y) ==
    365 * (y - 1) + ((y - 1) \div 4) - ((y - 1) \div 100) + ((y - 1) \div 400)

\* date.toordinal(): 0001-01-01 is day 1
Ordinal(y, m, d) == DaysBeforeYear(y) + DaysBeforeMonth(y, m) + d

\* date.fromordinal()
FromOrdinal(n) ==
    LET y == CHOOSE c \in (n \div 366)..((n \div 365) + 1) :
                 DaysBeforeYear(c) < n /\ n <= DaysBeforeYear(c + 1)
        r == n - DaysBeforeYear(y)
        m == CHOOSE c \in 1..12 :
                 DaysBeforeMonth(y, c) < r /\ r <= DaysBeforeMonth(y, c) + DaysInMonth(y, c)
    IN [year |-> y, month |-> m, day |-> r - DaysBeforeMonth(y, m)]

\* A datetime, to the second; tz is None for a naive one, else the minutes
\* east of UTC.
DateTime(y, mo, d, h, mi, sec, tz) ==
    [year |-> y, month |-> mo, day |-> d, hour |-> h, minute |-> mi, second |-> sec, tz |-> tz]

\* the minutes of an aware datetime since 0001-01-01T00:00 UTC
UtcMinutes(dt) ==
    (Ordinal(dt.year, dt.month, dt.day) - 1) * 1440 + dt.hour * 60 + dt.minute - dt.tz.v

\* the wall clock of dt moved by `minutes`, in the zone tz
Shifted(dt, minutes, tz) ==
    LET total == (Ordinal(dt.year, dt.month, dt.day) - 1) * 1440
                     + dt.hour * 60 + dt.minute + minutes
        date == FromOrdinal((total \div 1440) + 1)
    IN DateTime(date.year, date.month, date.day,
                (total % 1440) \div 60, total % 60, dt.second, tz)

\* dt.astimezone(zone): a naive datetime is taken to be in the system's zone
AsTimeZone(dt, zone, system) ==
    LET from == IF dt.tz.some THEN dt.tz.v ELSE system
    IN Shifted(dt, zone - from, Some(zone))

\* dt + timedelta(days=n)
PlusDays(dt, n) == Shifted(dt, n * 1440, dt.tz)

\* dt.strftime("%A")
DayName(dt) == DayNames[((Ordinal(dt.year, dt.month, dt.day) + 6) % 7) + 1]

\* dt.isoformat()
IsoFormat(dt) ==
    Pad4(dt.year) \o <<"-">> \o Pad2(dt.month) \o <<"-">> \o Pad2(dt.day) \o <<"T">>
        \o Pad2(dt.hour) \o <<":">> \o Pad2(dt.minute) \o <<":">> \o Pad2(dt.second)
        \o (IF ~dt.tz.some THEN <<>>
            ELSE LET a == IF dt.tz.v < 0 THEN 0 - dt.tz.v ELSE dt.tz.v
                 IN <<IF dt.tz.v < 0 THEN "-" ELSE "+">> \o Pad2(a \div 60) \o <<":">> \o Pad2(a % 60))

IsDateAt(s) ==
    /\ Len(s) >= 10
    /\ AllDigits(s, 1, 4) /\ s[5] = "-" /\ AllDigits(s, 6, 2) /\ s[8] = "-" /\ AllDigits(s, 9, 2)
    /\ Num4(s, 1) >= 1
    /\ Num2(s, 6) \in 1..12
    /\ Num2(s, 9) \in 1..DaysInMonth(Num4(s, 1), Num2(s, 6))

IsTimeAt(s, i) ==
    /\ Len(s) >= i + 7
    /\ AllDigits(s, i, 2) /\ s[i + 2] = ":" /\ AllDigits(s, i + 3, 2) /\ s[i + 5] = ":"
    /\ AllDigits(s, i + 6, 2)
    /\ Num2(s, i) < 24 /\ Num2(s, i + 3) < 60 /\ Num2(s, i + 6) < 60

IsOffsetAt(s, i) ==
    /\ Len(s) = i + 5
    /\ s[i] \in {"+", "-"}
    /\ AllDigits(s, i + 1, 2) /\ s[i + 3] = ":" /\ AllDigits(s, i + 4, 2)
    /\ Num2(s, i + 1) < 24 /\ Num2(s, i + 4) < 60

\* datetime.fromisoformat(s) on YYYY-MM-DD, YYYY-MM-DD?HH:MM:SS and the latter
\* with a +HH:MM or -HH:MM offset; a trailing Z is read as UTC only by the
\* interpreters that accept it (zsuffix).  Anything else is a ValueError.
FromIsoFormat(s, zsuffix) ==
    IF ~IsDateAt(s) THEN [ok |-> FALSE]
    ELSE LET y == Num4(s, 1)
             mo == Num2(s, 6)
             d == Num2(s, 9)
             at(tz) == DateTime(y, mo, d, Num2(s, 12), Num2(s, 15), Num2(s, 18), tz)
             sign == IF s[20] = "-" THEN -1 ELSE 1
         IN IF Len(s) = 10 THEN [ok |-> TRUE, dt |-> DateTime(y, mo, d, 0, 0, 0, None)]
            ELSE IF ~IsTimeAt(s, 12) THEN [ok |-> FALSE]
            ELSE IF Len(s) = 19 THEN [ok |-> TRUE, dt |-> at(None)]
            ELSE IF Len(s) = 20 /\ s[20] = "Z" /\ zsuffix THEN [ok |-> TRUE, dt |-> at(Some(0))]
            ELSE IF IsOffsetAt(s, 20)
            THEN [ok |-> TRUE, dt |-> at(Some(sign * (60 * Num2(s, 21) + Num2(s, 24))))]
            ELSE [ok |-> FALSE]

UtcSuffix == <<"+", "0", "0", ":", "0", "0">>

\* what a helper hands back: a value, or an exception on its way up
Value(v) == [raises |-> FALSE, v |-> v]

Raises(exc) == [raises |-> TRUE, exc |-> exc]

\* lines 154-164: _parse_iso_local
ParseIsoLocal(s, zsuffix) ==
    LET p == FromIsoFormat(s, zsuffix)
    IN IF ~p.ok THEN Raises("ValueError")
       ELSE IF ~p.dt.tz.some THEN Value([p.dt EXCEPT !.tz = Some(IST)])
       ELSE Value(AsTimeZone(p.dt, IST, IST))

\* lines 166-185: _to_local; the fromisoformat of the ten-character branch
\* (line 172) is outside the try
ToLocal(o, zsuffix, system) ==
    IF ~o.some \/ o.v = <<>> THEN Value(None)
    ELSE LET s == o.v
             first == FromIsoFormat(s, zsuffix)
             rewritten == SubSeq(s, 1, Len(s) - 1) \o UtcSuffix
             second == FromIsoFormat(rewritten, zsuffix)
         IN IF Len(s) = 10
            THEN IF first.ok
                 THEN Value(Some([first.dt EXCEPT !.hour = 0, !.minute = 0, !.second = 0,
                                                   !.tz = Some(IST)]))
                 ELSE Raises("ValueError")
            ELSE IF first.ok THEN Value(Some(AsTimeZone(first.dt, IST, system)))
            ELSE IF s[Len(s)] = "Z" /\ second.ok
            THEN Value(Some(AsTimeZone(second.dt, IST, system)))
            ELSE Value(None)

\* lines 187-192 on the joined text: re.search(r"\bzoom\.us\b", text, flags=re.I)
HasZoomText(text) ==
    \E i \in DOMAIN text :
        /\ StartsWithAtI(text, i, <<"z", "o", "o", "m", ".", "u", "s">>)
        /\ (i = 1 \/ ~IsWordChar(text[i - 1]))
        /\ (i + 7 > Len(text) \/ ~IsWordChar(text[i + 7]))

\* `o or ""`
OrEmptyText(o) == IF o.some THEN o.v ELSE <<>>

\* lines 187-192: _has_zoom
HasZoom(ev) == HasZoomText(OrEmptyText(ev.location) \o <<" ">> \o OrEmptyText(ev.description))


\* `field or {}` then .get("dateTime") or .get("date"), lines 94-95
RawTime(field) ==
    IF ~field.some THEN None
    ELSE IF field.v.dateTime.some /\ field.v.dateTime.v # <<>> THEN field.v.dateTime
    ELSE field.v.date

OnDate(d) == Some([dateTime |-> None, date |-> Some(d)])

AtTime(t) == Some([dateTime |-> Some(t), date |-> None])

Event(summary, location, description, start, end, link, attendees) ==
    [summary |-> summary, location |-> location, description |-> description,
     start |-> start, end |-> end, htmlLink |-> link, attendees |-> attendees]

\* a meeting whose location carries the marker
EvZoomLocation ==
    Event(Some("Q1 sync"), Some(<<"h", "t", "t", "p", "s", ":", "/", "/", "a", "c", "m", "e", ".", "z", "o", "o", "m", ".", "u", "s", "/", "j", "/", "1">>), None,
          AtTime(<<"2", "0", "2", "5", "-", "0", "3", "-", "1", "1", "T", "1", "0", ":", "0", "0", ":", "0", "0", "+", "0", "5", ":", "3", "0">>), AtTime(<<"2", "0", "2", "5", "-", "0", "3", "-", "1", "1", "T", "1", "1", ":", "0", "0", ":", "0", "0", "+", "0", "5", ":", "3", "0">>), Some("https://cal/ev1"),
          <<[displayName |-> Some("Ana"), email |-> Some("ana@acme.io"),
             responseStatus |-> Some("accepted")]>>)

\* an all-day event whose description holds a longer word than the marker
EvZoomies ==
    Event(Some("Dog walk"), Some(<<"P", "a", "r", "k">>), Some(<<"s", "e", "e", " ", "z", "o", "o", "m", "i", "e", "s", ".", "u", "s">>),
          OnDate(<<"2", "0", "2", "5", "-", "0", "3", "-", "1", "2">>), OnDate(<<"2", "0", "2", "5", "-", "0", "3", "-", "1", "3">>), Some("https://cal/ev2"), <<>>)

\* the marker in upper case in the description; no title, no location
EvZoomUpper ==
    Event(None, None, Some(<<"J", "o", "i", "n", ":", " ", "H", "T", "T", "P", "S", ":", "/", "/", "Z", "O", "O", "M", ".", "U", "S">>),
          AtTime(<<"2", "0", "2", "5", "-", "0", "3", "-", "1", "1", "T", "0", "4", ":", "3", "0", ":", "0", "0", "Z">>), AtTime(<<"2", "0", "2", "5", "-", "0", "3", "-", "1", "1", "T", "2", "3", ":", "3", "0", ":", "0", "0", "-", "0", "8", ":", "0", "0">>), Some("https://cal/ev3"),
          <<[displayName |-> None, email |-> Some("bo@acme.io"), responseStatus |-> None]>>)

\* the marker, and a date of ten characters that is no date
EvZoomBadDate ==
    Event(Some("Offsite"), Some(<<"z", "o", "o", "m", ".", "u", "s">>), Some(<<>>),
          OnDate(<<"2", "0", "2", "5", "-", "1", "3", "-", "4", "5">>), OnDate(<<"2", "0", "2", "5", "-", "0", "3", "-", "1", "3">>), Some("https://cal/ev4"), <<>>)

\* the marker split over location and description; no start, an end that is no time
EvSplit ==
    Event(Some("Lunch"), Some(<<"z", "o", "o", "m">>), Some(<<".", "u", "s">>),
          None, AtTime(<<"t", "o", "m", "o", "r", "r", "o", "w">>), None, <<>>)

EventKinds == {EvZoomLocation, EvZoomies, EvZoomUpper, EvZoomBadDate, EvSplit}

\* the event lists the backend answers with
EventLists == UNION {[1..n -> EventKinds] : n \in 0..MaxEvents}

\* the raw timestamps _to_local is handed
Timestamps ==
    {None, Some(<<>>)}
        \cup {RawTime(ev.start) : ev \in EventKinds} \cup {RawTime(ev.end) : ev \in EventKinds}

\* datetime.now(IST), line 64
Now == DateTime(2025, 3, 10, 9, 15, 0, Some(IST))

StartInputs ==
    {None, Some(<<"2", "0", "2", "5", "-", "0", "3", "-", "1", "1", "T", "0", "0", ":", "0", "0", ":", "0", "0">>),
     Some(<<"2", "0", "2", "5", "-", "0", "3", "-", "2", "0", "T", "0", "0", ":", "0", "0", ":", "0", "0", "+", "0", "5", ":", "3", "0">>), Some(<<"n", "e", "x", "t", " ", "w", "e", "e", "k">>)}

EndInputs ==
    {None, Some(<<"2", "0", "2", "5", "-", "0", "3", "-", "1", "7", "T", "0", "0", ":", "0", "0", ":", "0", "0">>),
     Some(<<"2", "0", "2", "5", "-", "0", "3", "-", "0", "1", "T", "0", "0", ":", "0", "0", ":", "0", "0", "+", "0", "0", ":", "0", "0">>), Some(<<"s", "o", "o", "n">>)}

\* lines 108-117
MeetingRecord(ev, start_local, end_local) ==
    [title |-> IF ev.summary.some /\ ev.summary.v # "" THEN ev.summary.v ELSE "No Title",
     day |-> IF start_local.some THEN Some(DayName(start_local.v)) ELSE None,
     start_local |-> IF start_local.some THEN Some(IsoFormat(start_local.v)) ELSE None,
     end_local |-> IF end_local.some THEN Some(IsoFormat(end_local.v)) ELSE None,
     event_link |-> ev.htmlLink,
     location |-> ev.location,
     description |-> ev.description,
     attendees |-> [i \in DOMAIN ev.attendees |->
                       [name |-> ev.attendees[i].displayName,
                        email |-> ev.attendees[i].email,
                        response |-> ev.attendees[i].responseStatus]]]

\* lines 89-117: the loop over the events; an exception leaves it at once
RECURSIVE MapEvents(_, _, _, _, _)
MapEvents(events, items, require_zoom, zsuffix, system) ==
    IF events = <<>> THEN Value(items)
    ELSE LET ev == Head(events)
             start_local == ToLocal(RawTime(ev.start), zsuffix, system)
             end_local == ToLocal(RawTime(ev.end), zsuffix, system)
         IN IF require_zoom /\ ~HasZoom(ev)
            THEN MapEvents(Tail(events), items, require_zoom, zsuffix, system)
            ELSE IF start_local.raises THEN start_local
            ELSE IF end_local.raises THEN end_local
            ELSE MapEvents(Tail(events),
                           Append(items, MeetingRecord(ev, start_local.v, end_local.v)),
                           require_zoom, zsuffix, system)

\* the exception escapes _run
CalendarUncaught(exc) == Raised(exc)

\* lines 121-122: the except of _run
CalendarCaught(exc) == Returned([error |-> <<"Calendar fetch failed: ", exc>>])

\* line 152: the except of _authorize, handed on by lines 59-61
CalendarAuthError(detail) == Returned([error |-> <<"Auth error: ", detail>>])

\* line 143
CalendarNoToken == Returned([error |-> "No calendar token JSON found in env (GOOGLE_TKN)"])

UtcSuffixLen(s, i) == IF StartsWithAt(s, i, UtcSuffix) THEN 6 ELSE 0

ZuluAt(s, i) == <<"Z">>

\* lines 76-77: dt.astimezone(ZoneInfo("UTC")).isoformat().replace("+00:00", "Z")
Rfc3339Utc(dt, system) == SubAll(IsoFormat(AsTimeZone(dt, 0, system)), UtcSuffixLen, ZuluAt)

CalendarCall ==
    /\ pc = "idle"
    /\ \E s \in StartInputs, e \in EndInputs, z \in BOOLEAN, tok \in TokenSources,
          zs \in BOOLEAN :
        /\ args' = [start_iso |-> s, end_iso |-> e, require_zoom |-> z]
        /\ env' = [GOOGLE_TKN |-> tok, now |-> Now, zsuffix |-> zs, tz |-> 0]
    /\ op' = "cal"
    /\ pc' = "cal_authorize"
    /\ loc' = [time_min |-> <<>>, time_max |-> <<>>, events |-> <<>>]
    /\ calls' = <<>>
    /\ result' = NoResult

\* lines 58-61 and 126-152: _authorize, whose error JSON _run hands on
CalendarAuthorize ==
    /\ pc = "cal_authorize"
    /\ LET tok == env.GOOGLE_TKN IN
        IF tok.shape = "absent"
        THEN /\ result' = CalendarNoToken
             /\ pc' = "done"
             /\ calls' = calls
        ELSE IF tok.shape # "valid"
        THEN /\ result' = CalendarAuthError(tok.shape)
             /\ pc' = "done"
             /\ calls' = calls
        ELSE \E refreshed \in BOOLEAN, built \in BOOLEAN :
             /\ ~NeedsRefresh(tok) => refreshed
             /\ ~refreshed => built
             /\ calls' = IF NeedsRefresh(tok) THEN Append(calls, RefreshCall(refreshed)) ELSE calls
             /\ result' = IF ~refreshed THEN CalendarAuthError("refresh")
                          ELSE IF ~built THEN CalendarAuthError("build calendar")
                          ELSE result
             /\ pc' = IF refreshed /\ built THEN "cal_window" ELSE "done"
    /\ UNCHANGED <<op, args, env, loc>>

\* `if start_iso:` of a str or None
Given(o) == o.some /\ o.v # <<>>

\* lines 63-77: the window, and its bounds in the wire format
CalendarWindow ==
    /\ pc = "cal_window"
    /\ LET start == IF Given(args.start_iso)
                    THEN ParseIsoLocal(args.start_iso.v, env.zsuffix)
                    ELSE Value(env.now)
           end == IF Given(args.end_iso)
                  THEN ParseIsoLocal(args.end_iso.v, env.zsuffix)
                  ELSE Value(PlusDays(start.v, WindowDays))
       IN IF start.raises
          THEN /\ result' = CalendarCaught(start.exc)
               /\ pc' = "done"
               /\ loc' = loc
          ELSE IF end.raises
          THEN /\ result' = CalendarCaught(end.exc)
               /\ pc' = "done"
               /\ loc' = loc
          ELSE /\ loc' = [loc EXCEPT !.time_min = Rfc3339Utc(start.v, env.tz),
                                     !.time_max = Rfc3339Utc(end.v, env.tz)]
               /\ result' = result
               /\ pc' = "cal_list"
    /\ UNCHANGED <<op, args, env, calls>>

\* lines 79-87: events().list(...).execute() and the events of its answer
CalendarList ==
    /\ pc = "cal_list"
    /\ \E ok \in BOOLEAN, events \in EventLists :
        /\ ~ok => events = <<>>
        /\ calls' = Append(calls, [api |-> "events.list",
                                   arg |-> [calendarId |-> "primary",
                                            timeMin |-> loc.time_min,
                                            timeMax |-> loc.time_max,
                                            singleEvents |-> TRUE,
                                            maxResults |-> 100,
                                            orderBy |-> "startTime"],
                                   ok |-> ok, ret |-> Len(events)])
        /\ loc' = [loc EXCEPT !.events = events]
        /\ result' = IF ok THEN result ELSE CalendarCaught("HttpError")
        /\ pc' = IF ok THEN "cal_items" ELSE "done"
    /\ UNCHANGED <<op, args, env>>

\* lines 89-119: the records of the events, and the payload
CalendarMapEvents ==
    /\ pc = "cal_items"
    /\ LET mapped == MapEvents(loc.events, <<>>, args.require_zoom, env.zsuffix, env.tz)
       IN result' = IF mapped.raises THEN CalendarCaught(mapped.exc)
                    ELSE Returned([count |-> Len(mapped.v), items |-> mapped.v])
    /\ pc' = "done"
    /\ UNCHANGED <<op, args, env, loc, calls>>

\* _to_local called on its own
ToLocalCall ==
    /\ pc = "idle"
    /\ \E t \in Timestamps, zs \in BOOLEAN :
        /\ args' = [dt_str |-> t]
        /\ env' = [zsuffix |-> zs, tz |-> 0]
    /\ op' = "to_local"
    /\ pc' = "to_local_run"
    /\ loc' = Idle
    /\ calls' = <<>>
    /\ result' = NoResult

ToLocalRun ==
    /\ pc = "to_local_run"
    /\ LET out == ToLocal(args.dt_str, env.zsuffix, env.tz)
       IN result' = IF out.raises THEN Raised(out.exc) ELSE Returned(out.v)
    /\ pc' = "done"
    /\ UNCHANGED <<op, args, env, loc, calls>>

\* ============================================================ the machine

\* the caller takes the result; nothing of the call is kept
Return ==
    /\ pc = "done"
    /\ op' = "idle"
    /\ pc' = "idle"
    /\ args' = Idle
    /\ env' = Idle
    /\ loc' = Idle
    /\ calls' = <<>>
    /\ result' = NoResult

Init ==
    /\ op = "idle"
    /\ pc = "idle"
    /\ args = Idle
    /\ env = Idle
    /\ loc = Idle
    /\ calls = <<>>
    /\ result = NoResult

Next ==
    \/ HubSpotCall
    \/ HubSpotClient
    \/ HubSpotMeetingSearch
    \/ HubSpotContactFetch
    \/ HubSpotReadCompanies
    \/ HubSpotCompanyFetch
    \/ HubSpotReadDeals
    \/ HubSpotDealFetch
    \/ HubSpotAggregate
    \/ GoogleDocCall
    \/ GoogleDocCredentials
    \/ GoogleDocCreate
    \/ GoogleDocInsertText
    \/ GoogleDocShare
    \/ ExtractCall
    \/ ExtractRun
    \/ GmailCall
    \/ GmailCredentials
    \/ GmailSearch
    \/ GmailFetchMessage
    \/ CalendarCall
    \/ CalendarAuthorize
    \/ CalendarWindow
    \/ CalendarList
    \/ CalendarMapEvents
    \/ ToLocalCall
    \/ ToLocalRun
    \/ Return

Spec == Init /\ [][Next]_vars

\* ================================================================ claims

CrmDone == op = "crm" /\ pc = "done"

\* the client was built, so the sub-lookups ran
CrmLookedUp == CrmDone /\ calls # <<>>

NumCalls(api) == Cardinality({i \in DOMAIN calls : calls[i].api = api})

\* C2: the bundle says found = true exactly when one of meeting, contact,
\* companies, deals is non-empty, and carries those four collections; when all
\* four are empty or failed the bundle is exactly
\* {found: false, reason: "No HubSpot data found"}.
C2_FoundIffAnyNonEmpty ==
    CrmLookedUp =>
        LET v == result.value
            meeting == OrEmptyDict(loc.meeting_obj)
            contact == OrEmptyDict(loc.contact_obj)
            nonEmpty == \/ meeting # {}
                        \/ contact # {}
                        \/ loc.companies # <<>>
                        \/ loc.deals # <<>>
        IN /\ result.status = "returned"
           /\ v.found = nonEmpty
           /\ v.found =>
                /\ DOMAIN v = {"found", "meeting", "contact", "companies", "deals"}
                /\ v.meeting = meeting
                /\ v.contact = contact
                /\ v.companies = loc.companies
                /\ v.deals = loc.deals
           /\ ~v.found => v = [found |-> FALSE, reason |-> "No HubSpot data found"]

\* found = true although meeting and contact are empty: one fetched company
\* is enough
C2_Witness ==
    /\ CrmLookedUp
    /\ result.value.found
    /\ result.value.meeting = {}
    /\ result.value.contact = {}
    /\ result.value.companies = <<ItemProps("companies", 1)>>
    /\ result.value.deals = <<>>

\* the number of fetches the fan-out over one association collection issues
ExpectedFetches(coll) ==
    IF loc.contact.has /\ coll.present THEN Min(3, Len(coll.results)) ELSE 0

Unreadable(coll) == loc.contact.has /\ coll.present /\ ~coll.readable

\* C3: the lookups are isolated.  Whatever the meeting search did (thrown
\* included) the contact fetch is issued next; a meeting that was found stays in
\* the bundle whatever the contact fetch and the fan-out did; and after a
\* successful contact fetch every one of the (up to 3) company and deal fetches
\* is issued, whichever of them failed.
C3_LookupsIsolated ==
    CrmLookedUp =>
        /\ calls[1].api = "meetings.do_search"
        /\ Len(calls) >= 2
        /\ calls[2].api = "contacts.get_by_id"
        /\ (calls[1].ok /\ calls[1].ret.kind = "hit" /\ Truthy(calls[1].ret.properties)) =>
                /\ result.value.found
                /\ result.value.meeting = calls[1].ret.properties.v
        /\ (calls[2].ok /\ ~Unreadable(loc.contact.companies)) =>
                /\ NumCalls("companies.get_by_id") = ExpectedFetches(loc.contact.companies)
                /\ ~Unreadable(loc.contact.deals) =>
                       NumCalls("deals.get_by_id") = ExpectedFetches(loc.contact.deals)

\* the meeting search threw, a company fetch failed too, and the bundle is found
\* from the contact alone
C3_Witness ==
    /\ CrmLookedUp
    /\ ~calls[1].ok
    /\ \E i \in DOMAIN calls : calls[i].api = "companies.get_by_id" /\ ~calls[i].ok
    /\ NumCalls("deals.get_by_id") = 3
    /\ result.value.found
    /\ result.value.meeting = {}
    /\ result.value.contact = ContactProps
    /\ result.value.companies = <<>>
    /\ result.value.deals = <<>>

DocDone == op = "doc" /\ pc = "done"

\* the backend calls of a publish, the token refresh left out
DocSteps == SelectSeq(calls, LAMBDA c : c.api # "token.refresh")

DocOrder == <<"documents.create", "documents.batchUpdate", "permissions.create">>

IsDocError(v) == Len(v) = 2 /\ v[1] = "Error creating document: "

\* C9: publish issues create, insertText (summary and a newline, at index 1),
\* permission (anyone/writer) in that order; the edit link of the created
\* document is returned only when all three succeeded, and a failure at any step
\* (the token source included) is the last thing the call does and returns a
\* string starting with "Error creating document: ".
C9_PublishOrder ==
    DocDone =>
        /\ result.status = "returned"
        /\ Len(DocSteps) <= 3
        /\ \A i \in DOMAIN DocSteps :
                /\ DocSteps[i].api = DocOrder[i]
                /\ ~DocSteps[i].ok => i = Len(DocSteps)
        /\ Len(DocSteps) >= 2 =>
                /\ DocSteps[1].ret.documentId.some
                /\ DocSteps[2].arg =
                       [documentId |-> DocSteps[1].ret.documentId.v,
                        requests |-> <<[index |-> 1,
                                        text |-> args.meeting_summary \o <<"\n">>]>>]
        /\ Len(DocSteps) = 3 =>
                DocSteps[3].arg = [fileId |-> DocSteps[1].ret.documentId.v,
                                   body |-> [type |-> "anyone", role |-> "writer"]]
        /\ IF Len(DocSteps) = 3 /\ \A i \in 1..3 : DocSteps[i].ok
           THEN result.value = <<"https://docs.google.com/document/d/",
                                 DocSteps[1].ret.documentId.v, "/edit">>
           ELSE IsDocError(result.value)
        /\ env.GOOGLE_TKN_DOC.shape # "valid" => calls = <<>> /\ IsDocError(result.value)
        /\ (\E i \in DOMAIN calls : ~calls[i].ok) => IsDocError(result.value)

\* a publish of a non-empty summary that went through all three steps and
\* returned the link
C9_Witness ==
    /\ DocDone
    /\ args.meeting_summary # <<>>
    /\ Len(DocSteps) = 3
    /\ result.value = <<"https://docs.google.com/document/d/", "1AbC", "/edit">>

MailDone == op = "mail" /\ pc = "done"

\* C6: the bound the mailbox search is issued with is max_results clamped into
\* [1, 10] (below 1 gives 1, above 10 gives 10, anything else itself), and the
\* search, carrying that bound, is the first backend call of search_mail.
C6_MaxResultsClamped ==
    op = "mail" =>
        /\ pc = "mail_message" => calls # <<>>
        /\ \A i \in DOMAIN calls :
              IF i = 1
              THEN /\ calls[i].api = "messages.list"
                   /\ calls[i].arg.maxResults \in 1..10
                   /\ calls[i].arg.maxResults =
                          (IF args.max_results < 1 THEN 1
                           ELSE IF args.max_results > 10 THEN 10
                           ELSE args.max_results)
              ELSE calls[i].api = "messages.get"

\* max_results = 0 went to the mailbox as 1, and one message came back
C6_Witness ==
    /\ MailDone
    /\ args.max_results = 0
    /\ calls # <<>>
    /\ calls[1].arg.maxResults = 1
    /\ result.status = "returned"
    /\ "count" \in DOMAIN result.value
    /\ result.value.count = 1

\* the decoded texts of the text/plain parts carrying data, anywhere in a payload
RECURSIVE PlainTexts(_)
PlainTexts(payload) ==
    (IF payload.mimeType = "text/plain" /\ payload.data # <<>>
     THEN {SafeB64ToText(payload.data)} ELSE {})
        \cup UNION {PlainTexts(payload.parts[i]) : i \in DOMAIN payload.parts}

\* C7: whenever the payload, nested parts included, holds a text/plain part
\* with data, the extracted body is the decoded text of such a part.
C7_PlainTextPreferred ==
    (op = "extract" /\ pc = "done" /\ PlainTexts(args.payload) # {}) =>
        result.value \in PlainTexts(args.payload)

\* an HTML part beside a container that holds the text/plain part: the body is
\* the stripped HTML
C7_Witness ==
    /\ op = "extract"
    /\ pc = "done"
    /\ args.payload =
           Part("multipart/alternative", <<>>,
                <<Part("text/html", DataHtml, <<>>),
                  Part("multipart/alternative", <<>>, <<Part("text/plain", DataPlain, <<>>)>>)>>)
    /\ result.value = <<"H", "i", "\n", "\n", "A", "n", "a">>

\* C8: every record search_mail returns has a snippet of at most 300
\* characters and, when include_body is true, a body of at most
\* body_char_limit characters.
C8_RecordsWithinLimits ==
    (MailDone /\ result.status = "returned" /\ "items" \in DOMAIN result.value) =>
        \A i \in DOMAIN result.value.items :
            LET record == result.value.items[i]
            IN /\ Len(record.snippet) <= 300
               /\ args.include_body =>
                      /\ "body" \in DOMAIN record
                      /\ Len(record.body) <= args.body_char_limit

\* body_char_limit = -1: the body keeps all but its last character
C8_Witness ==
    /\ MailDone
    /\ args.include_body
    /\ args.body_char_limit = -1
    /\ result.status = "returned"
    /\ "items" \in DOMAIN result.value
    /\ Len(result.value.items) = 1
    /\ result.value.items[1].body = <<"H", "i", "\n", "\n", "A", "n">>

\* ---- Calendar

CalDone == op = "cal" /\ pc = "done"

\* the backend answered the events query of this call
CalListed == calls # <<>> /\ calls[Len(calls)].api = "events.list" /\ calls[Len(calls)].ok

\* the event kinds whose location and description hold "zoom.us" as a whole
\* word, in any case
Marked == {EvZoomLocation, EvZoomUpper, EvZoomBadDate}

\* C4: with require_zoom the items are exactly the backend's events that carry
\* the marker, in backend order; without it they are all of the backend's
\* events; count is the number of items.
C4_ZoomFilter ==
    (CalDone /\ CalListed) =>
        LET kept == SelectSeq(loc.events, LAMBDA ev : ~args.require_zoom \/ ev \in Marked)
        IN /\ "items" \in DOMAIN result.value
           /\ result.value.count = Len(result.value.items)
           /\ Len(result.value.items) = Len(kept)
           /\ \A i \in DOMAIN kept :
                 /\ result.value.items[i].event_link = kept[i].htmlLink
                 /\ result.value.items[i].location = kept[i].location
                 /\ result.value.items[i].description = kept[i].description

\* a meeting with the marker, then one with the marker and a malformed date:
\* the caller gets the envelope instead of the two records
C4_Witness ==
    /\ CalDone
    /\ CalListed
    /\ args.require_zoom
    /\ loc.events = <<EvZoomLocation, EvZoomBadDate>>
    /\ DOMAIN result.value = {"error"}

\* the instant a bound of the query names: whole minutes since 0001-01-01T00:00
\* UTC, and the seconds over them
WireInstant(s) ==
    LET dt == FromIsoFormat(s, TRUE).dt IN [minutes |-> UtcMinutes(dt), seconds |-> dt.second]

NotAfter(a, b) ==
    a.minutes < b.minutes \/ (a.minutes = b.minutes /\ a.seconds <= b.seconds)

\* C5: the window sent to the backend has timeMin <= timeMax; with both bounds
\* omitted timeMin is the current time and timeMax is 7 days later; with only
\* end omitted timeMax is 7 days after timeMin.
C5_WindowOrdered ==
    op = "cal" =>
        \A i \in DOMAIN calls :
            calls[i].api = "events.list" =>
                LET lo == WireInstant(calls[i].arg.timeMin)
                    hi == WireInstant(calls[i].arg.timeMax)
                IN /\ NotAfter(lo, hi)
                   /\ ~Given(args.end_iso) =>
                          hi.minutes - lo.minutes = 7 * 24 * 60 /\ hi.seconds = lo.seconds
                   /\ ~Given(args.start_iso) =>
                          lo.minutes = UtcMinutes(env.now) /\ lo.seconds = env.now.second

\* start_iso three days after end_iso goes to the backend as it is
C5_Witness ==
    /\ op = "cal"
    /\ calls # <<>>
    /\ calls[Len(calls)].api = "events.list"
    /\ args.start_iso = Some(<<"2", "0", "2", "5", "-", "0", "3", "-", "2", "0", "T", "0", "0", ":", "0", "0", ":", "0", "0", "+", "0", "5", ":", "3", "0">>)
    /\ args.end_iso = Some(<<"2", "0", "2", "5", "-", "0", "3", "-", "1", "7", "T", "0", "0", ":", "0", "0", ":", "0", "0">>)
    /\ calls[Len(calls)].arg.timeMin = <<"2", "0", "2", "5", "-", "0", "3", "-", "1", "9", "T", "1", "8", ":", "3", "0", ":", "0", "0", "Z">>
    /\ calls[Len(calls)].arg.timeMax = <<"2", "0", "2", "5", "-", "0", "3", "-", "1", "6", "T", "1", "8", ":", "3", "0", ":", "0", "0", "Z">>

\* C10: to_local never raises, whatever string it is handed, and a call of
\* list_meetings whose backend answered returns the payload of records, the
\* records of events with an unreadable start carrying null day and
\* start_local, never the error envelope.
C10_TimestampsDegrade ==
    /\ (op = "to_local" /\ pc = "done") =>
          /\ result.status = "returned"
          /\ ~FromIsoFormat(OrEmptyText(args.dt_str), TRUE).ok => result.value = None
    /\ (CalDone /\ CalListed) =>
          /\ "items" \in DOMAIN result.value
          /\ \A i \in DOMAIN result.value.items :
                result.value.items[i].event_link = EvZoomBadDate.htmlLink =>
                    /\ result.value.items[i].day = None
                    /\ result.value.items[i].start_local = None

\* a string of ten characters that is no date leaves to_local as a ValueError
C10_Witness ==
    /\ op = "to_local"
    /\ pc = "done"
    /\ args.dt_str = Some(<<"2", "0", "2", "5", "-", "1", "3", "-", "4", "5">>)
    /\ result.status = "raised"

\* ---- every adapter

Adapters == {"cal", "mail", "crm", "doc"}

\* the payload or the error envelope of the Calendar and Mail adapters
IsListing(v) ==
    \/ DOMAIN v = {"error"}
    \/ DOMAIN v = {"count", "items"} /\ v.count = Len(v.items)

\* the bundle or the envelope of the CRM adapter
IsCrmResult(v) ==
    IF v.found
    THEN DOMAIN v = {"found", "meeting", "contact", "companies", "deals"}
    ELSE DOMAIN v = {"found", "reason"}

\* the link or the error text of the Document adapter
IsDocResult(v) ==
    \/ Len(v) = 3 /\ v[1] = "https://docs.google.com/document/d/" /\ v[3] = "/edit"
    \/ Len(v) = 2 /\ v[1] = "Error creating document: "

\* C1: a call of an adapter never raises to its caller: it ends with exactly
\* one returned value, the adapter's success payload or its error envelope, and
\* hands nothing over before it ends.
C1_NeverRaises ==
    op \in Adapters =>
        IF pc # "done" THEN result = NoResult
        ELSE /\ result.status = "returned"
             /\ op \in {"cal", "mail"} => IsListing(result.value)
             /\ op = "crm" => IsCrmResult(result.value)
             /\ op = "doc" => IsDocResult(result.value)

\* the backend answered, an event's date could not be read, and the caller got
\* the Calendar envelope
C1_Witness ==
    /\ CalDone
    /\ CalListed
    /\ result.status = "returned"
    /\ DOMAIN result.value = {"error"}
    /\ result.value.error = <<"Calendar fetch failed: ", "ValueError">>

\* ---- CRM fan-out

\* the ids the fetches of one kind were issued for, in call order
FetchArgs(api) ==
    LET fetches == SelectSeq(calls, LAMBDA c : c.api = api)
    IN [i \in DOMAIN fetches |-> fetches[i].arg]

\* the properties the successful fetches of one kind returned, in call order
FetchedProps(api) ==
    LET fetches == SelectSeq(calls, LAMBDA c : c.api = api /\ c.ok)
    IN [i \in DOMAIN fetches |-> fetches[i].ret.properties.v]

\* the first 3 ids of an association collection of the contact
FirstIds(coll) ==
    IF loc.contact.has /\ coll.present
    THEN [i \in 1..(IF Len(coll.results) < 3 THEN Len(coll.results) ELSE 3) |-> coll.results[i]]
    ELSE <<>>

\* C11: the fan-out fetches the first 3 associated companies and then the
\* first 3 associated deals at most, in association order; a fetch that fails
\* leaves out that item only, the fetches after it are still issued; so the
\* bundle holds the items of the successful fetches, never more than 3 of a kind.
C11_FanOutBounded ==
    (CrmLookedUp /\ Len(calls) >= 2) =>
        /\ Len(FetchArgs("companies.get_by_id")) <= 3
        /\ Len(FetchArgs("deals.get_by_id")) <= 3
        /\ \A i, j \in DOMAIN calls :
              (calls[i].api = "deals.get_by_id" /\ calls[j].api = "companies.get_by_id") => j < i
        /\ result.value.found =>
              /\ Len(result.value.companies) <= 3
              /\ Len(result.value.deals) <= 3
              /\ result.value.companies = FetchedProps("companies.get_by_id")
              /\ result.value.deals = FetchedProps("deals.get_by_id")
        /\ (calls[2].ok /\ ~Unreadable(loc.contact.companies)) =>
              /\ FetchArgs("companies.get_by_id") = FirstIds(loc.contact.companies)
              /\ ~Unreadable(loc.contact.deals) =>
                     FetchArgs("deals.get_by_id") = FirstIds(loc.contact.deals)

\* four associated companies, the second fetch fails: companies 1 and 3 are in
\* the bundle, the fourth is never asked for, and the deals are fetched after
C11_Witness ==
    /\ CrmLookedUp
    /\ loc.contact.has
    /\ Len(loc.contact.companies.results) = 4
    /\ FetchArgs("companies.get_by_id") = <<1, 2, 3>>
    /\ FetchArgs("deals.get_by_id") = <<1, 2>>
    /\ result.value.found
    /\ result.value.companies = <<ItemProps("companies", 1), ItemProps("companies", 3)>>
    /\ Len(result.value.deals) = 2

\* ---- credentials

\* the token source the running adapter resolved its credentials from
ResolvedToken ==
    IF op = "cal" THEN env.GOOGLE_TKN
    ELSE IF op = "doc" THEN env.GOOGLE_TKN_DOC
    ELSE env.GMAIL_TKN

\* the caller got the error result of the running adapter
IsErrorResult ==
    /\ result.status = "returned"
    /\ IF op = "doc" THEN IsDocError(result.value) ELSE DOMAIN result.value = {"error"}

\* C12: a token refresh is attempted only for credentials that are expired
\* and carry a refresh token, and then before any backend call; a refresh that
\* fails ends the call with the adapter's error result, no backend call being
\* made with the stale token.
C12_RefreshOnlyWhenNeeded ==
    op \in Adapters =>
        /\ \A i \in DOMAIN calls :
              calls[i].api = "token.refresh" =>
                  /\ i = 1
                  /\ op \in {"cal", "doc"}
                  /\ ResolvedToken.shape = "valid"
                  /\ ResolvedToken.expired
                  /\ ResolvedToken.refresh_token
        /\ (calls # <<>> /\ calls[1].api = "token.refresh" /\ ~calls[1].ok) =>
              /\ Len(calls) = 1
              /\ pc = "done"
              /\ IsErrorResult

\* expired credentials with a refresh token, the refresh fails: the Calendar
\* adapter returns its envelope and the events query is never issued
C12_Witness ==
    /\ CalDone
    /\ env.GOOGLE_TKN.expired
    /\ env.GOOGLE_TKN.refresh_token
    /\ calls = <<RefreshCall(FALSE)>>
    /\ result = CalendarAuthError("refresh")

\* ---- CRM contact

\* the contact fetch of this lookup succeeded with non-empty properties
ContactFetched ==
    /\ CrmLookedUp
    /\ Len(calls) >= 2
    /\ calls[2].api = "contacts.get_by_id"
    /\ calls[2].ok
    /\ Truthy(calls[2].ret.properties)

\* C13: once the contact fetch has succeeded with non-empty properties the
\* bundle has found = true and carries those properties as its contact,
\* whatever happened afterwards while the associations were read and the
\* companies and deals were fetched.
C13_ContactKept ==
    ContactFetched =>
        /\ result.value.found
        /\ result.value.contact = calls[2].ret.properties.v

\* the contact was fetched, its companies collection cannot be read, no meeting
\* was found: the bundle says that there is no data
C13_Witness ==
    /\ ContactFetched
    /\ calls[2].ret.properties = Some(ContactProps)
    /\ Unreadable(loc.contact.companies)
    /\ Len(calls) = 2
    /\ result = Returned([found |-> FALSE, reason |-> "No HubSpot data found"])

====
